---- MODULE Spec2Model ----
(***************************************************************************)
(* NEUTRA client-side search: the Search module (src/js/search.js), the    *)
(* two input handlers of the application that drive its debounced entry    *)
(* point (src/js/app.js) and the browser's timer table they share, and     *)
(* the application's start-up, NEUTRA.init, with its session cache; the   *)
(* Router's updateParams and navigate (src/js/router.js) and the           *)
(* application's formatDuration.                                           *)
(*                                                                         *)
(* JavaScript values are modelled as follows.  A string is a sequence of   *)
(* one-character strings.  An object is a record; a property that is      *)
(* undefined is a field the record does not have.  null is NULL.           *)
(***************************************************************************)
EXTENDS Integers, Sequences, FiniteSets, TLC

VARIABLES
    searchIndex,    \* search.js: let searchIndex
    debounceTimer,  \* search.js: let debounceTimer (0 = null, else a timer id)
    timers,         \* the browser's pending timeouts armed by setTimeout
    nextTimerId,    \* the id the next setTimeout returns
    dropdown,       \* app.js: #search-dropdown (class 'active', innerHTML)
    page,           \* app.js: the panels of the search page
    urlQ,           \* the q parameter of the current URL
    catalog,        \* the argument of the last buildIndex call
    ret,            \* the last operation and its outcome
    calls,          \* history: the debouncedSearch invocations, in order
    log,            \* history: the callbacks that ran, in order
    nOps,           \* number of operations performed so far
    previous,       \* history: the argument of the buildIndex call before the last
    input,          \* the arguments of the function under study
    appCatalog,     \* app.js: let catalog
    links,          \* app.js: let links
    isInitialized,  \* app.js: let isInitialized
    sessionCache,   \* sessionStorage['neutra_cache'] (NULL = no entry)
    now,            \* Date.now(), in milliseconds since the page was opened
    initCalls,      \* history: the calls of NEUTRA.init, in order
    effects,        \* history: how often init fetched, built the index, added listeners
    history,        \* window.history: the query string of each entry, the current one last
    loads,          \* number of page loads caused by navigation
    inputValue,     \* app.js: the value of #global-search and of #page-search
    searches        \* history: the searches since the last buildIndex call, in order

vars == <<searchIndex, debounceTimer, timers, nextTimerId, dropdown, page,
          urlQ, catalog, ret, calls, log, nOps, previous, input, appCatalog, links,
          isInitialized, sessionCache, now, initCalls, effects, history, loads,
          inputValue, searches>>

-----------------------------------------------------------------------------
(* Bounds of the model *)

MaxTracks == 2
MaxOps == 2
MaxLimit == 2
MaxEvents == 4
MaxRebuildOps == 3
MaxTextLen == 3
MaxAppEvents == 4
MaxRouterOps == 2
MaxSeconds == 125
MaxRepeatOps == 4

-----------------------------------------------------------------------------
(* Program constants *)

DEFAULT_LIMIT == 50
ARTIST_LIMIT == 10
GLOBAL_SEARCH_LIMIT == 8
MIN_QUERY_LENGTH == 2
CACHE_DURATION == 300000
TITLE_PREFIX == 100
TITLE_SUBSTRING == 50
ARTIST_PREFIX == 80
ARTIST_SUBSTRING == 40
ALBUM_SUBSTRING == 20

NULL == [null |-> TRUE]

-----------------------------------------------------------------------------
(* Strings *)

Has(obj, field) == field \in DOMAIN obj

LowerChar(c) ==
    CASE c = "A" -> "a"
      [] c = "B" -> "b"
      [] c = "Z" -> "z"
      [] OTHER -> c

ToLowerCase(s) == [i \in 1..Len(s) |-> LowerChar(s[i])]

IsWhiteSpace(c) == c = " "

Trim(s) ==
    LET kept == {i \in 1..Len(s) : ~IsWhiteSpace(s[i])}
    IN  IF kept = {} THEN <<>>
        ELSE LET first == CHOOSE i \in kept : \A j \in kept : i <= j
                 last  == CHOOSE i \in kept : \A j \in kept : j <= i
             IN  SubSeq(s, first, last)

Includes(s, q) ==
    \E i \in 0..(Len(s) - Len(q)) : SubSeq(s, i + 1, i + Len(q)) = q

StartsWith(s, q) ==
    /\ Len(q) <= Len(s)
    /\ SubSeq(s, 1, Len(q)) = q

\* Array.prototype.slice(0, end)
Slice(arr, end) ==
    LET e == IF end < 0 THEN (IF Len(arr) + end < 0 THEN 0 ELSE Len(arr) + end)
             ELSE IF end > Len(arr) THEN Len(arr) ELSE end
    IN  SubSeq(arr, 1, e)

\* the sequences of parts joined end to end
Concat(parts) ==
    LET P == UNION {{<<i, k>> : k \in 1..Len(parts[i])} : i \in 1..Len(parts)}
        Before(i) == Cardinality({pr \in P : pr[1] < i})
    IN  [p \in 1..Cardinality(P) |->
            LET at == CHOOSE pr \in P : Before(pr[1]) + pr[2] = p
            IN  parts[at[1]][at[2]]]

-----------------------------------------------------------------------------
(* Catalogs: the inputs of buildIndex *)

TrackPool ==
    { [title |-> <<"A", "b">>, artist |-> <<"a">>, album |-> <<"a">>],
      [title |-> <<"b", " ", "a">>, artist |-> <<"A">>],
      [artist |-> <<"B", "a">>] }

AlbumLists ==
    { <<>>,
      << [title |-> <<"A", "b">>] >>,
      << [title |-> <<"b", "a">>, artist |-> <<"B">>],
         [title |-> <<"a", "B">>, artist |-> <<"a", "b">>],
         [title |-> <<"a", "B">>, artist |-> <<"a", "b">>] >> }

\* catalog ids are unique: a record's id is its position in its sequence
WithIds(records) == [i \in 1..Len(records) |-> ("id" :> i) @@ records[i]]

TrackLists == UNION {[1..n -> TrackPool] : n \in 0..MaxTracks}

\* more matching tracks than the default limit
BigCatalog ==
    [tracks |-> [i \in 1..(DEFAULT_LIMIT + 1) |->
                    [id |-> i, title |-> <<"b", " ", "a">>, artist |-> <<"A">>]],
     albums |-> <<>>]

\* more matching artists than the artist limit: "Ab", "Abb", "Abbb", ...
ManyArtistsCatalog ==
    [tracks |-> [i \in 1..(ARTIST_LIMIT + 1) |->
                    [id |-> i, title |-> <<"z">>,
                     artist |-> <<"A">> \o [k \in 1..i |-> "b"]]],
     albums |-> <<>>]

\* an artist of a track who is also the artist of an album
SharedArtistCatalog ==
    [tracks |-> << [id |-> 1, title |-> <<"z">>, artist |-> <<"B">>],
                   [id |-> 2, title |-> <<"z">>, artist |-> <<"a">>] >>,
     albums |-> << [id |-> 1, title |-> <<"z">>, artist |-> <<"a">>],
                   [id |-> 2, title |-> <<"z">>, artist |-> <<"A">>],
                   [id |-> 3, title |-> <<"z">>, artist |-> <<"B">>] >>]

\* a track that names an album in its album field only, a track without an
\* album, and an album of another title
AlbumFieldCatalog ==
    [tracks |-> << [id |-> 1, title |-> <<"z">>, artist |-> <<"z">>,
                    album |-> <<"A", " ", "b">>],
                   [id |-> 2, title |-> <<"b">>, artist |-> <<"z">>] >>,
     albums |-> << [id |-> 1, title |-> <<"z">>, artist |-> <<"B">>] >>]

Catalogs ==
    {[tracks |-> WithIds(ts), albums |-> WithIds(as)] :
        ts \in TrackLists, as \in AlbumLists}
    \cup {[albums |-> WithIds(as)] : as \in AlbumLists}
    \cup {[tracks |-> WithIds(ts)] : ts \in [1..1 -> TrackPool]}
    \cup {BigCatalog, ManyArtistsCatalog, SharedArtistCatalog, AlbumFieldCatalog}

Queries ==
    { <<>>, <<" ">>, <<"a">>, <<"A", " ">>, <<"b">>, <<"a", "b">> }

NoOptions == <<>>

OptionsSet == {NoOptions} \cup {[limit |-> n] : n \in 0..MaxLimit}

-----------------------------------------------------------------------------
(* Search.buildIndex *)

\* faulty variant: an array filled by push(), every occurrence kept
Distinct_NoDedupe(names) == names

\* new Set() filled by add(), in insertion order: each name once, at the
\* place of its first occurrence
Distinct(names) ==
    LET First(i) == \A j \in 1..(i - 1) : names[j] # names[i]
        firsts == SelectSeq([i \in 1..Len(names) |-> i], First)
    IN  [k \in 1..Len(firsts) |-> names[firsts[k]]]

OrEmpty(obj, field) ==
    IF Has(obj, field) /\ obj[field] # <<>> THEN obj[field] ELSE <<>>

TrackEntry(track) ==
    [id |-> track.id,
     title |-> ToLowerCase(track.title),
     artist |-> ToLowerCase(track.artist),
     album |-> ToLowerCase(OrEmpty(track, "album")),
     original |-> track]

AlbumEntry(album) ==
    [id |-> album.id,
     title |-> ToLowerCase(album.title),
     artist |-> ToLowerCase(album.artist),
     original |-> album]

\* an undefined title or artist makes .toLowerCase() throw a TypeError
Throws(record) == ~Has(record, "title") \/ ~Has(record, "artist")

\* the records a forEach gets through: all of them, or those before the
\* first one that throws
Processed(records) ==
    LET bad == {k \in 1..Len(records) : Throws(records[k])}
    IN  IF bad = {} THEN records
        ELSE SubSeq(records, 1, (CHOOSE k \in bad : \A m \in bad : k <= m) - 1)

ArtistsOf(records) == [i \in 1..Len(records) |-> records[i].artist]

\* faulty variant: the entries are added to the index already there
FreshIndex_Keep ==
    IF searchIndex = NULL
    THEN [tracks |-> <<>>, albums |-> <<>>, artists |-> <<>>]
    ELSE [tracks |-> searchIndex.tracks, albums |-> searchIndex.albums,
          artists |-> searchIndex.artists]

\* searchIndex = { tracks: [], albums: [], artists: new Set() }
FreshIndex == [tracks |-> <<>>, albums |-> <<>>, artists |-> <<>>]

\* the value of searchIndex when buildIndex(cat) returns or throws: the
\* index is assigned first and filled in place, and artists is turned from
\* a Set into an Array by the last statement
BuildIndexOp(cat) ==
    LET tracks == IF Has(cat, "tracks") THEN cat.tracks ELSE <<>>
        doneT  == Processed(tracks)
        threwT == Len(doneT) < Len(tracks)
        albums == IF ~threwT /\ Has(cat, "albums") THEN cat.albums ELSE <<>>
        doneA  == Processed(albums)
        threw  == threwT \/ Len(doneA) < Len(albums)
    IN  [index |->
            [tracks |-> FreshIndex.tracks
                            \o [i \in 1..Len(doneT) |-> TrackEntry(doneT[i])],
             albums |-> FreshIndex.albums
                            \o [i \in 1..Len(doneA) |-> AlbumEntry(doneA[i])],
             artists |-> Distinct(FreshIndex.artists
                                    \o ArtistsOf(doneT) \o ArtistsOf(doneA)),
             artistsKind |-> IF threw THEN "Set" ELSE "Array"],
         threw |-> threw]

-----------------------------------------------------------------------------
(* Search.search *)

EmptyResults == [tracks |-> <<>>, albums |-> <<>>, artists |-> <<>>]

\* faulty variant: the query is not trimmed
Normalize_NoTrim(query) == ToLowerCase(query)

Normalize(query) == Trim(ToLowerCase(query))

\* options.limit || 50
Limit(options) ==
    IF Has(options, "limit") /\ options.limit # 0 THEN options.limit
    ELSE DEFAULT_LIMIT

\* faulty variant: the title is not looked at
TrackMatches_NoTitle(e, q) ==
    Includes(e.artist, q) \/ Includes(e.album, q)

\* faulty variant: every track of the index matches
TrackMatches_All(e, q) == TRUE

TrackMatches(e, q) ==
    Includes(e.title, q) \/ Includes(e.artist, q) \/ Includes(e.album, q)

AlbumMatches(e, q) ==
    Includes(e.title, q) \/ Includes(e.artist, q)

\* faulty variant: the two title weights are exchanged
TitleScore_Swapped(e, q) ==
    IF StartsWith(e.title, q) THEN TITLE_SUBSTRING
    ELSE IF Includes(e.title, q) THEN TITLE_PREFIX ELSE 0

TitleScore(e, q) ==
    IF StartsWith(e.title, q) THEN TITLE_PREFIX
    ELSE IF Includes(e.title, q) THEN TITLE_SUBSTRING ELSE 0

\* faulty variant: the substring weight is added to the prefix weight (no else)
ArtistScore_NoElse(e, q) ==
    (IF StartsWith(e.artist, q) THEN ARTIST_PREFIX ELSE 0)
    + (IF Includes(e.artist, q) THEN ARTIST_SUBSTRING ELSE 0)

ArtistScore(e, q) ==
    IF StartsWith(e.artist, q) THEN ARTIST_PREFIX
    ELSE IF Includes(e.artist, q) THEN ARTIST_SUBSTRING ELSE 0

TrackScore(e, q) ==
    TitleScore(e, q) + ArtistScore(e, q)
        + (IF Includes(e.album, q) THEN ALBUM_SUBSTRING ELSE 0)

AlbumScore(e, q) == TitleScore(e, q) + ArtistScore(e, q)

\* faulty variant: the score is also written on the catalog record
WithScore_OnOriginal(e, s) ==
    ("score" :> s) @@ [e EXCEPT !.original = ("score" :> s) @@ e.original]

\* match.score = score
WithScore(e, s) == ("score" :> s) @@ e

\* faulty variant: a sort that reverses the elements of equal score
SortByScore_Unstable(arr) ==
    LET n == Len(arr)
        rank == [i \in 1..n |->
                    Cardinality({j \in 1..n : arr[j].score > arr[i].score})
                    + Cardinality({j \in i..n : arr[j].score = arr[i].score})]
    IN  [p \in 1..n |-> arr[CHOOSE i \in 1..n : rank[i] = p]]

\* Array.prototype.sort((a, b) => b.score - a.score).  The sort is stable
\* (ECMAScript 2019): an element comes after the elements of greater score
\* and after the earlier elements of equal score.
SortByScore(arr) ==
    LET n == Len(arr)
        rank == [i \in 1..n |->
                    Cardinality({j \in 1..n : arr[j].score > arr[i].score})
                    + Cardinality({j \in 1..i : arr[j].score = arr[i].score})]
    IN  [p \in 1..n |-> arr[CHOOSE i \in 1..n : rank[i] = p]]

Originals(matches) == [i \in 1..Len(matches) |-> matches[i].original]

\* faulty variant: the tracks of the index themselves are sorted, the
\* matching ones first
ScoredTracks_InPlace(index, q) ==
    LET scored == [i \in 1..Len(index.tracks) |->
                      IF TrackMatches(index.tracks[i], q)
                      THEN WithScore(index.tracks[i], TrackScore(index.tracks[i], q))
                      ELSE index.tracks[i]]
        Is(e) == TrackMatches(e, q)
        Not(e) == ~TrackMatches(e, q)
    IN  SortByScore(SelectSeq(scored, Is)) \o SelectSeq(scored, Not)

ScoredTracks(index, q) ==
    [i \in 1..Len(index.tracks) |->
        IF TrackMatches(index.tracks[i], q)
        THEN WithScore(index.tracks[i], TrackScore(index.tracks[i], q))
        ELSE index.tracks[i]]

ScoredAlbums(index, q) ==
    [i \in 1..Len(index.albums) |->
        IF AlbumMatches(index.albums[i], q)
        THEN WithScore(index.albums[i], AlbumScore(index.albums[i], q))
        ELSE index.albums[i]]

\* faulty variant: the matching artists are not cut to 10
ArtistMatches_NoSlice(index, q) ==
    LET Test(artist) == Includes(ToLowerCase(artist), q)
    IN  SelectSeq(index.artists, Test)

ArtistMatches(index, q) ==
    LET Test(artist) == Includes(ToLowerCase(artist), q)
    IN  Slice(SelectSeq(index.artists, Test), ARTIST_LIMIT)

\* the outcome of search(query, options) on the index: what it returns or
\* that it threw, and the index it leaves behind
SearchOp(index, query, options) ==
    LET q == Normalize(query) IN
    IF index = NULL \/ q = <<>>
    THEN [index |-> index, threw |-> FALSE, value |-> EmptyResults]
    ELSE
        LET limit == Limit(options)
            tracks == ScoredTracks(index, q)
            albums == ScoredAlbums(index, q)
            TTest(e) == TrackMatches(e, q)
            ATest(e) == AlbumMatches(e, q)
            trackMatches == SortByScore(SelectSeq(tracks, TTest))
            albumMatches == SortByScore(SelectSeq(albums, ATest))
            after == [index EXCEPT !.tracks = tracks, !.albums = albums]
        IN  IF index.artistsKind # "Array"
            THEN [index |-> after, threw |-> TRUE]
            ELSE [index |-> after, threw |-> FALSE,
                  value |-> [tracks |-> Originals(Slice(trackMatches, limit)),
                             albums |-> Originals(Slice(albumMatches, limit)),
                             artists |-> ArtistMatches(index, q)]]

-----------------------------------------------------------------------------
(* The Search API called directly *)

\* the module state as declared; the page as first displayed (empty state
\* shown, no results rendered, no q parameter)
Init ==
    /\ searchIndex = NULL
    /\ debounceTimer = 0
    /\ timers = {}
    /\ nextTimerId = 1
    /\ dropdown = [active |-> FALSE, html |-> ""]
    /\ page = [emptyState |-> TRUE, noResults |-> FALSE, tracks |-> FALSE,
               albums |-> FALSE, artists |-> FALSE]
    /\ urlQ = NULL
    /\ catalog = NULL
    /\ ret = [op |-> "none"]
    /\ calls = <<>>
    /\ log = <<>>
    /\ nOps = 0
    /\ previous = NULL
    /\ input = NULL
    /\ appCatalog = NULL
    /\ links = NULL
    /\ isInitialized = FALSE
    /\ sessionCache = NULL
    /\ now = 0
    /\ initCalls = <<>>
    /\ effects = [fetches |-> 0, builds |-> 0, listeners |-> 0]
    /\ history = << <<>> >>
    /\ loads = 0
    /\ inputValue = [global |-> <<>>, page |-> <<>>]
    /\ searches = <<>>

\* one more operation, at most max in a run
Step(max) == nOps < max /\ nOps' = nOps + 1

\* the variables the operations of the Search module and the input handlers
\* do not touch
others == <<previous, input, appCatalog, links, isInitialized, sessionCache,
            now, initCalls, effects, history, loads, inputValue, searches>>

BuildIndex(cat) ==
    /\ LET r == BuildIndexOp(cat) IN
        /\ searchIndex' = r.index
        /\ ret' = [op |-> "buildIndex", threw |-> r.threw]
    /\ catalog' = cat
    /\ UNCHANGED <<debounceTimer, timers, nextTimerId, dropdown, page, urlQ,
                   calls, log>>

Search(query, options) ==
    /\ LET r == SearchOp(searchIndex, query, options) IN
        /\ searchIndex' = r.index
        /\ ret' = IF r.threw
                  THEN [op |-> "search", query |-> query, options |-> options,
                        threw |-> TRUE]
                  ELSE [op |-> "search", query |-> query, options |-> options,
                        threw |-> FALSE, value |-> r.value]
    /\ UNCHANGED <<debounceTimer, timers, nextTimerId, dropdown, page, urlQ,
                   catalog, calls, log>>

IsReady ==
    /\ ret' = [op |-> "isReady", threw |-> FALSE, value |-> (searchIndex # NULL)]
    /\ UNCHANGED <<searchIndex, debounceTimer, timers, nextTimerId, dropdown,
                   page, urlQ, catalog, calls, log>>

CallBuildIndex(cat) == Step(MaxOps) /\ BuildIndex(cat) /\ UNCHANGED others

CallSearch(query, options) == Step(MaxOps) /\ Search(query, options) /\ UNCHANGED others

CallIsReady == Step(MaxOps) /\ IsReady /\ UNCHANGED others

Next ==
    \/ \E cat \in Catalogs : CallBuildIndex(cat)
    \/ \E query \in Queries, options \in OptionsSet : CallSearch(query, options)
    \/ CallIsReady

Spec == Init /\ [][Next]_vars

-----------------------------------------------------------------------------
(* Router: the query string of the current URL and Router.updateParams.    *)
(* A query string is the text after the "?", a sequence whose elements are *)
(* characters and percent escapes such as "%20"; a URLSearchParams object  *)
(* is the sequence of its name/value pairs.                                *)

UNDEFINED == [undefined |-> TRUE]

\* the pieces of s between the occurrences of sep
Split(s, sep) ==
    LET B == {0} \cup {i \in 1..Len(s) : s[i] = sep} \cup {Len(s) + 1}
        Nth(k) == CHOOSE b \in B : Cardinality({x \in B : x < b}) = k - 1
    IN  [k \in 1..(Cardinality(B) - 1) |-> SubSeq(s, Nth(k) + 1, Nth(k + 1) - 1)]

\* application/x-www-form-urlencoded: decoding of one element
DecodeChar(c) ==
    CASE c = "+" -> " "
      [] c = "%20" -> " "
      [] c = "%26" -> "&"
      [] c = "%3D" -> "="
      [] c = "%2B" -> "+"
      [] OTHER -> c

\* application/x-www-form-urlencoded: encoding of one character
EncodeChar(c) ==
    CASE c = " " -> "+"
      [] c = "&" -> "%26"
      [] c = "=" -> "%3D"
      [] c = "+" -> "%2B"
      [] OTHER -> c

Decode(s) == [i \in 1..Len(s) |-> DecodeChar(s[i])]

Encode(s) == [i \in 1..Len(s) |-> EncodeChar(s[i])]

\* one name=value piece of a query string; without "=" the value is empty
ParsePair(piece) ==
    LET E == {i \in 1..Len(piece) : piece[i] = "="} IN
    IF E = {} THEN [key |-> Decode(piece), value |-> <<>>]
    ELSE LET eq == CHOOSE i \in E : \A j \in E : i <= j
         IN  [key |-> Decode(SubSeq(piece, 1, eq - 1)),
              value |-> Decode(SubSeq(piece, eq + 1, Len(piece)))]

\* new URLSearchParams(search) / url.searchParams
ParseQuery(search) ==
    LET NotEmpty(piece) == piece # <<>>
        pieces == SelectSeq(Split(search, "&"), NotEmpty)
    IN  [i \in 1..Len(pieces) |-> ParsePair(pieces[i])]

\* the query of url.toString() once searchParams has been changed
SerializeQuery(params) ==
    Concat([i \in 1..Len(params) |->
                (IF i > 1 THEN <<"&">> ELSE <<>>)
                    \o Encode(params[i].key) \o <<"=">> \o Encode(params[i].value)])

\* the values of the properties of a parameter object: null, undefined, a
\* string or the number 0
ZERO == [number |-> 0]

Str(s) == [string |-> s]

\* String(value), for the values passed here
StringOf(value) == IF value = ZERO THEN <<"0">> ELSE value.string

\* searchParams.delete(key): every pair of that name is removed
ParamsDelete(params, key) ==
    LET Other(pair) == pair.key # key IN SelectSeq(params, Other)

\* faulty variant: the value is appended and the pairs of that name are kept
ParamsSet_Append(params, key, value) ==
    Append(params, [key |-> key, value |-> StringOf(value)])

\* searchParams.set(key, value): the first pair of that name gets the value
\* and the other pairs of that name are removed; without such a pair one is
\* appended
ParamsSet(params, key, value) ==
    LET N == {i \in 1..Len(params) : params[i].key = key} IN
    IF N = {} THEN Append(params, [key |-> key, value |-> StringOf(value)])
    ELSE LET first == CHOOSE i \in N : \A j \in N : i <= j
             kept == {i \in 1..Len(params) : i \notin N \/ i = first}
             Nth(k) == CHOOSE i \in kept : Cardinality({j \in kept : j < i}) = k - 1
         IN  [k \in 1..Cardinality(kept) |->
                IF Nth(k) = first
                THEN [key |-> key, value |-> StringOf(value)]
                ELSE params[Nth(k)]]

\* the forEach over Object.entries(params) of updateParams, applied to the
\* pairs of the URL
RECURSIVE ApplyEntries(_, _)
ApplyEntries(params, entries) ==
    IF entries = <<>> THEN params
    ELSE LET e == Head(entries)
             next == IF e.value = NULL \/ e.value = UNDEFINED \/ e.value = Str(<<>>)
                     THEN ParamsDelete(params, e.key)
                     ELSE ParamsSet(params, e.key, e.value)
         IN  ApplyEntries(next, Tail(entries))

\* the query string of the URL that updateParams(entries) passes to
\* replaceState when the current query string is search; the query string is
\* rewritten from the pairs as soon as one is set or deleted
UpdateParamsOp(search, entries) ==
    IF entries = <<>> THEN search
    ELSE SerializeQuery(ApplyEntries(ParseQuery(search), entries))

\* the query string of the current history entry
Current == history[Len(history)]

\* window.history.replaceState({}, '', url)
ReplaceState(entries, search) == [entries EXCEPT ![Len(entries)] = search]

\* Router.getParam(key): the value of the first pair of that name, or null
GetParam(search, key) ==
    LET params == ParseQuery(search)
        N == {i \in 1..Len(params) : params[i].key = key}
    IN  IF N = {} THEN NULL
        ELSE params[CHOOSE i \in N : \A j \in N : i <= j].value

\* the query strings the page is opened with
Searches ==
    { <<>>,
      <<"q", "=", "a">>,
      <<"q", "=", "a", "%20", "b", "&", "i", "=", "1">>,
      <<"i", "=", "1", "&", "q", "=", "a", "&", "q", "=", "b">>,
      <<"q", "&", "&", "p", "=", "a", "+", "b">>,
      <<"p", "=", "a", "%26", "b", "&", "i">> }

\* the values of the object passed to updateParams
ParamValues ==
    <<NULL, UNDEFINED, Str(<<>>), Str(<<"b">>), Str(<<"a", " ", "b">>), ZERO>>

\* the values of a second key of that object
OtherValues == <<NULL, Str(<<"b">>), Str(<<"=">>)>>

\* the objects passed to updateParams, each the sequence of its entries:
\* {}, {q: v} and {i: v, q: w}
ParamObjects ==
    << <<>> >>
    \o [k \in 1..Len(ParamValues) |->
            <<[key |-> <<"q">>, value |-> ParamValues[k]]>>]
    \o [k \in 1..(Len(OtherValues) * Len(ParamValues)) |->
            <<[key |-> <<"i">>,
               value |-> OtherValues[((k - 1) \div Len(ParamValues)) + 1]],
              [key |-> <<"q">>,
               value |-> ParamValues[((k - 1) % Len(ParamValues)) + 1]]>>]

\* Router.updateParams(params)
UpdateParams(entries) ==
    /\ history' = ReplaceState(history, UpdateParamsOp(Current, entries))
    /\ ret' = [op |-> "updateParams", params |-> entries]
    /\ UNCHANGED <<searchIndex, debounceTimer, timers, nextTimerId, dropdown,
                   page, urlQ, catalog, calls, log, previous, input, appCatalog,
                   links, isInitialized, sessionCache, now, initCalls, effects,
                   loads, inputValue, searches>>

\* Router.navigate(url): the page at url is loaded as a new history entry
Navigate(search) ==
    /\ history' = Append(history, search)
    /\ loads' = loads + 1
    /\ ret' = [op |-> "navigate"]
    /\ UNCHANGED <<searchIndex, debounceTimer, timers, nextTimerId, dropdown,
                   page, urlQ, catalog, calls, log, previous, input, appCatalog,
                   links, isInitialized, sessionCache, now, initCalls, effects,
                   inputValue, searches>>

InitRouter ==
    /\ searchIndex = NULL
    /\ debounceTimer = 0
    /\ timers = {}
    /\ nextTimerId = 1
    /\ dropdown = [active |-> FALSE, html |-> ""]
    /\ page = [emptyState |-> TRUE, noResults |-> FALSE, tracks |-> FALSE,
               albums |-> FALSE, artists |-> FALSE]
    /\ urlQ = NULL
    /\ catalog = NULL
    /\ ret = [op |-> "none"]
    /\ calls = <<>>
    /\ log = <<>>
    /\ nOps = 0
    /\ previous = NULL
    /\ input = NULL
    /\ appCatalog = NULL
    /\ links = NULL
    /\ isInitialized = FALSE
    /\ sessionCache = NULL
    /\ now = 0
    /\ initCalls = <<>>
    /\ effects = [fetches |-> 0, builds |-> 0, listeners |-> 0]
    /\ history \in {<<search>> : search \in Searches}
    /\ loads = 0
    /\ inputValue = [global |-> <<>>, page |-> <<>>]
    /\ searches = <<>>

CallUpdateParams(entries) == Step(MaxRouterOps) /\ UpdateParams(entries)

CallNavigate(search) == Step(MaxRouterOps) /\ Navigate(search)

NextRouter ==
    \/ \E k \in 1..Len(ParamObjects) : CallUpdateParams(ParamObjects[k])
    \/ \E search \in Searches : CallNavigate(search)

SpecRouter == InitRouter /\ [][NextRouter]_vars

-----------------------------------------------------------------------------
(* Debounced search: Search.debouncedSearch, Search.cancelSearch, the timer *)
(* they arm, and the two input handlers of the application that share it    *)

\* what is typed into #global-search and #page-search
InputValues == { <<"a", " ">>, <<"A", "b">>, <<"z", "z">> }

\* the catalogs the index is built from while the handlers are in use
DebounceCatalogs ==
    {c \in Catalogs : Has(c, "tracks") /\ Len(c.tracks) = 1
                      /\ Has(c, "albums") /\ c.albums = <<>>}

\* clearTimeout(id): no effect unless a pending timeout has that id
ClearTimeout(pending, id) == {t \in pending : t.id # id}

\* faulty variant: the previous timeout is left armed
Rearmed_NoClear(timer) == timers \cup {timer}

\* the pending timeouts after clearTimeout(debounceTimer); setTimeout(...)
Rearmed(timer) == ClearTimeout(timers, debounceTimer) \cup {timer}

\* faulty variant: cancelSearch clears nothing
Cancelled_Noop == timers

\* the pending timeouts after cancelSearch()
Cancelled == ClearTimeout(timers, debounceTimer)

\* the invocations whose timeout is pending
PendingCalls(pending) == {t.call : t \in pending}

\* history: what became of each invocation of which
Mark(field, which) ==
    [i \in 1..Len(calls) |->
        IF i \in which THEN [calls[i] EXCEPT ![field] = TRUE] ELSE calls[i]]

\* Search.debouncedSearch(query, callback, options); owner names the callback
DebouncedSearch(query, owner, options) ==
    LET timer == [id |-> nextTimerId, call |-> Len(calls) + 1, query |-> query,
                  options |-> options, owner |-> owner]
    IN  /\ timers' = Rearmed(timer)
        /\ debounceTimer' = nextTimerId
        /\ nextTimerId' = nextTimerId + 1
        /\ calls' = Append(Mark("superseded", PendingCalls(timers)),
                           [query |-> query, options |-> options, owner |-> owner,
                            superseded |-> FALSE, cancelled |-> FALSE,
                            fired |-> FALSE])

\* the input listener of #global-search
GlobalSearchInput(value) ==
    LET query == Trim(value) IN
    /\ inputValue' = [inputValue EXCEPT !.global = value]
    /\ IF Len(query) < MIN_QUERY_LENGTH
       THEN /\ dropdown' = [active |-> FALSE, html |-> ""]
            /\ UNCHANGED <<timers, debounceTimer, nextTimerId, calls>>
       ELSE /\ DebouncedSearch(query, "dropdown", [limit |-> GLOBAL_SEARCH_LIMIT])
            /\ UNCHANGED dropdown
    /\ ret' = [op |-> "input"]
    /\ UNCHANGED <<searchIndex, page, urlQ, catalog, log>>

HideAllResults(p) ==
    [p EXCEPT !.tracks = FALSE, !.albums = FALSE, !.artists = FALSE,
              !.noResults = FALSE]

\* the input listener of #page-search
PageSearchInput(value) ==
    LET query == Trim(value) IN
    /\ inputValue' = [inputValue EXCEPT !.page = value]
    /\ urlQ' = IF query = <<>> THEN NULL ELSE query
    /\ history' = ReplaceState(history,
                       UpdateParamsOp(Current,
                           <<[key |-> <<"q">>,
                              value |-> IF query = <<>> THEN NULL ELSE Str(query)]>>))
    /\ IF Len(query) < MIN_QUERY_LENGTH
       THEN /\ page' = [HideAllResults(page) EXCEPT !.emptyState = TRUE]
            /\ UNCHANGED <<timers, debounceTimer, nextTimerId, calls>>
       ELSE /\ DebouncedSearch(query, "page", NoOptions)
            /\ UNCHANGED page
    /\ ret' = [op |-> "input"]
    /\ UNCHANGED <<searchIndex, dropdown, catalog, log>>

\* renderSearchDropdown(results, query, dropdown)
RenderSearchDropdown(results) ==
    IF Len(results.tracks) = 0 /\ Len(results.albums) = 0
    THEN [active |-> TRUE, html |-> "empty"]
    ELSE [active |-> TRUE, html |-> "results"]

\* performSearch(query, results)
PerformSearch(results) ==
    IF Len(results.tracks) = 0 /\ Len(results.albums) = 0 /\ Len(results.artists) = 0
    THEN [HideAllResults(page) EXCEPT !.emptyState = FALSE, !.noResults = TRUE]
    ELSE [emptyState |-> FALSE, noResults |-> FALSE,
          tracks |-> Len(results.tracks) > 0,
          albums |-> Len(results.albums) > 0,
          artists |-> Len(results.artists) > 0]

\* the timeout armed by debouncedSearch fires: search runs and, unless it
\* throws, the callback is called with its results and the query
TimerFires(timer) ==
    LET r == SearchOp(searchIndex, timer.query, timer.options) IN
    /\ timers' = timers \ {timer}
    /\ searchIndex' = r.index
    /\ calls' = Mark("fired", {timer.call})
    /\ ret' = [op |-> "timer", call |-> timer.call, threw |-> r.threw]
    /\ IF r.threw
       THEN UNCHANGED <<log, dropdown, page>>
       ELSE /\ log' = Append(log, [call |-> timer.call, query |-> timer.query,
                                   results |-> r.value])
            /\ IF timer.owner = "dropdown"
               THEN dropdown' = RenderSearchDropdown(r.value) /\ UNCHANGED page
               ELSE page' = PerformSearch(r.value) /\ UNCHANGED dropdown
    /\ UNCHANGED <<debounceTimer, nextTimerId, urlQ, catalog>>

\* Search.cancelSearch()
CancelSearch ==
    /\ timers' = Cancelled
    /\ calls' = Mark("cancelled", PendingCalls(timers))
    /\ ret' = [op |-> "cancelSearch"]
    /\ UNCHANGED <<searchIndex, debounceTimer, nextTimerId, dropdown, page,
                   urlQ, catalog, log>>

LoadCatalog(cat) == Step(MaxEvents) /\ BuildIndex(cat) /\ UNCHANGED others

TypeInGlobalSearch(value) ==
    /\ Step(MaxEvents)
    /\ GlobalSearchInput(value)
    /\ UNCHANGED <<previous, input, appCatalog, links, isInitialized,
                   sessionCache, now, initCalls, effects, history, loads,
                   searches>>

TypeInPageSearch(value) ==
    /\ Step(MaxEvents)
    /\ PageSearchInput(value)
    /\ UNCHANGED <<previous, input, appCatalog, links, isInitialized,
                   sessionCache, now, initCalls, effects, loads, searches>>

Timeout(timer) == Step(MaxEvents) /\ TimerFires(timer) /\ UNCHANGED others

CallCancelSearch == Step(MaxEvents) /\ CancelSearch /\ UNCHANGED others

NextDebounce ==
    \/ \E cat \in DebounceCatalogs : LoadCatalog(cat)
    \/ \E value \in InputValues : TypeInGlobalSearch(value)
    \/ \E value \in InputValues : TypeInPageSearch(value)
    \/ \E timer \in timers : Timeout(timer)
    \/ CallCancelSearch

SpecDebounce == Init /\ [][NextDebounce]_vars

-----------------------------------------------------------------------------
(* The index rebuilt: buildIndex called again with another catalog, with     *)
(* searches before and after                                                 *)

RebuildCatalogs ==
    {c \in Catalogs : Has(c, "tracks") /\ Len(c.tracks) <= 1 /\ Has(c, "albums")}

Rebuild(cat) ==
    /\ Step(MaxRebuildOps)
    /\ BuildIndex(cat)
    /\ previous' = catalog
    /\ UNCHANGED <<input, appCatalog, links, isInitialized, sessionCache, now,
                   initCalls, effects, history, loads, inputValue, searches>>

SearchRebuilt(query, options) ==
    Step(MaxRebuildOps) /\ Search(query, options) /\ UNCHANGED others

NextRebuild ==
    \/ \E cat \in RebuildCatalogs : Rebuild(cat)
    \/ \E query \in Queries, options \in OptionsSet : SearchRebuilt(query, options)

SpecRebuild == Init /\ [][NextRebuild]_vars

-----------------------------------------------------------------------------
(* Searches repeated: several searches on one index, the same query asked  *)
(* again after others                                                       *)

\* two tracks and two albums that score alike for "a" and in the opposite
\* order for "b"
TiesCatalog ==
    [tracks |-> << [id |-> 1, title |-> <<"A", "b">>, artist |-> <<"z">>],
                   [id |-> 2, title |-> <<"a">>, artist |-> <<"B">>] >>,
     albums |-> << [id |-> 1, title |-> <<"A", "b">>, artist |-> <<"z">>],
                   [id |-> 2, title |-> <<"a">>, artist |-> <<"B">>] >>]

RepeatCatalogs == {TiesCatalog, SharedArtistCatalog, AlbumFieldCatalog}

RepeatQueries == {<<"a">>, <<"b">>}

RepeatOptions == {NoOptions, [limit |-> 1]}

RepeatBuild(cat) ==
    /\ Step(MaxRepeatOps)
    /\ BuildIndex(cat)
    /\ searches' = <<>>
    /\ UNCHANGED <<previous, input, appCatalog, links, isInitialized,
                   sessionCache, now, initCalls, effects, history, loads,
                   inputValue>>

RepeatSearch(query, options) ==
    /\ Step(MaxRepeatOps)
    /\ Search(query, options)
    /\ searches' = Append(searches, ret')
    /\ UNCHANGED <<previous, input, appCatalog, links, isInitialized,
                   sessionCache, now, initCalls, effects, history, loads,
                   inputValue>>

NextRepeat ==
    \/ \E cat \in RepeatCatalogs : RepeatBuild(cat)
    \/ \E query \in RepeatQueries, options \in RepeatOptions :
            RepeatSearch(query, options)

SpecRepeat == Init /\ [][NextRepeat]_vars

-----------------------------------------------------------------------------
(* Search.highlight, with escapeHtml and escapeRegex.  The two tags that    *)
(* highlight inserts are the elements "<mark>" and "</mark>" of the result. *)

TextChars == {"a", "A", "&", "<", "."}

Texts == UNION {[1..n -> TextChars] : n \in 0..MaxTextLen}

HighlightQueries ==
    { <<>>, <<" ">>, <<"a">>, <<"A", " ">>, <<"&">>, <<"<">>, <<".">>,
      <<"a", "&">> }

\* the serialization of a text node: & < > become entities
EscapeChar(c) ==
    CASE c = "&" -> <<"&", "a", "m", "p", ";">>
      [] c = "<" -> <<"&", "l", "t", ";">>
      [] c = ">" -> <<"&", "g", "t", ";">>
      [] OTHER -> <<c>>

\* div.textContent = text; return div.innerHTML
EscapeHtml(text) == Concat([i \in 1..Len(text) |-> EscapeChar(text[i])])

RegexSpecials ==
    {".", "*", "+", "?", "^", "$", "{", "}", "(", ")", "|", "[", "]", "\\"}

\* text.replace(/[.*+?^${}()|[\]\\]/g, '\\$&')
EscapeRegex(text) ==
    Concat([i \in 1..Len(text) |->
                IF text[i] \in RegexSpecials THEN <<"\\", text[i]>>
                ELSE <<text[i]>>])

\* new RegExp(`(${pattern})`, 'gi'): the atoms of the pattern.  A backslash
\* makes the next character a literal; an unescaped dot matches any character.
RECURSIVE Atoms(_)
Atoms(pattern) ==
    IF pattern = <<>> THEN <<>>
    ELSE IF pattern[1] = "\\" /\ Len(pattern) >= 2
         THEN <<[literal |-> pattern[2]]>> \o Atoms(SubSeq(pattern, 3, Len(pattern)))
    ELSE IF pattern[1] = "."
         THEN <<[any |-> TRUE]>> \o Atoms(Tail(pattern))
    ELSE <<[literal |-> pattern[1]]>> \o Atoms(Tail(pattern))

\* the atoms match s at position i, letter case ignored (flag i)
MatchesAt(s, i, atoms) ==
    /\ i + Len(atoms) - 1 <= Len(s)
    /\ \A k \in 1..Len(atoms) :
          \/ Has(atoms[k], "any")
          \/ /\ Has(atoms[k], "literal")
             /\ LowerChar(atoms[k].literal) = LowerChar(s[i + k - 1])

\* the positions of s where the regex matches (flag g): the matches are
\* taken from left to right and do not overlap
Matches(s, atoms) ==
    LET n == Len(atoms)
        C == {i \in 1..Len(s) : MatchesAt(s, i, atoms)}
        Overlapped(T, i) == \E j \in T : j < i /\ i < j + n
    IN  CHOOSE T \in SUBSET C : \A i \in C : (i \in T) <=> ~Overlapped(T, i)

\* s.replace(regex, '<mark>$1</mark>'): every match is put between the two
\* tags; an empty pattern matches the empty string before every character
\* and at the end
Replace(s, atoms) ==
    IF atoms = <<>>
    THEN [k \in 1..(3 * Len(s) + 2) |->
            IF k % 3 = 1 THEN "<mark>"
            ELSE IF k % 3 = 2 THEN "</mark>" ELSE s[k \div 3]]
    ELSE
        LET n == Len(atoms)
            T == Matches(s, atoms)
            At(i) == i + Cardinality({j \in T : j <= i})
                       + Cardinality({j \in T : j + n - 1 < i})
        IN  [k \in 1..(Len(s) + 2 * Cardinality(T)) |->
                IF \E i \in 1..Len(s) : At(i) = k
                THEN s[CHOOSE i \in 1..Len(s) : At(i) = k]
                ELSE IF \E j \in T : At(j) = k + 1 THEN "<mark>" ELSE "</mark>"]

\* faulty variant: no early return for an empty query
Highlight_NoEmptyCheck(text, query) ==
    Replace(EscapeHtml(text), Atoms(EscapeRegex(ToLowerCase(Trim(query)))))

Highlight(text, query) ==
    IF query = <<>> THEN EscapeHtml(text)
    ELSE LET escaped == EscapeHtml(text)
             q == ToLowerCase(Trim(query))
         IN  Replace(escaped, Atoms(EscapeRegex(q)))

InitHighlight ==
    /\ searchIndex = NULL
    /\ debounceTimer = 0
    /\ timers = {}
    /\ nextTimerId = 1
    /\ dropdown = [active |-> FALSE, html |-> ""]
    /\ page = [emptyState |-> TRUE, noResults |-> FALSE, tracks |-> FALSE,
               albums |-> FALSE, artists |-> FALSE]
    /\ urlQ = NULL
    /\ catalog = NULL
    /\ ret = [op |-> "none"]
    /\ calls = <<>>
    /\ log = <<>>
    /\ nOps = 0
    /\ previous = NULL
    /\ input \in [text : Texts, query : HighlightQueries]
    /\ appCatalog = NULL
    /\ links = NULL
    /\ isInitialized = FALSE
    /\ sessionCache = NULL
    /\ now = 0
    /\ initCalls = <<>>
    /\ effects = [fetches |-> 0, builds |-> 0, listeners |-> 0]
    /\ history = << <<>> >>
    /\ loads = 0
    /\ inputValue = [global |-> <<>>, page |-> <<>>]
    /\ searches = <<>>

\* Search.highlight(text, query)
CallHighlight ==
    /\ ret' = [op |-> "highlight",
               value |-> Highlight(input.text, input.query)]
    /\ UNCHANGED <<searchIndex, debounceTimer, timers, nextTimerId, dropdown,
                   page, urlQ, catalog, calls, log, nOps>>
    /\ UNCHANGED others

\* Search.highlight(escapeHtml(text), '')
CallHighlightOfEscaped ==
    /\ ret' = [op |-> "highlightOfEscaped",
               value |-> Highlight(EscapeHtml(input.text), <<>>)]
    /\ UNCHANGED <<searchIndex, debounceTimer, timers, nextTimerId, dropdown,
                   page, urlQ, catalog, calls, log, nOps>>
    /\ UNCHANGED others

NextHighlight == CallHighlight \/ CallHighlightOfEscaped

SpecHighlight == InitHighlight /\ [][NextHighlight]_vars

-----------------------------------------------------------------------------
(* NEUTRA.init: the session cache, the two fetches it awaits and the        *)
(* one-time set-up that follows.  A cache entry is written and read back    *)
(* through JSON; for the catalogs and links used here (strings, integers,   *)
(* no undefined property) the value read equals the value written.          *)

\* an entry of the session store that JSON.parse throws on
Malformed == [malformed |-> TRUE]

\* the catalog of an entry left in the session store by an earlier page
CachedCatalog ==
    [tracks |-> << [id |-> 1, title |-> <<"b", " ", "a">>, artist |-> <<"A">>] >>,
     albums |-> <<>>]

\* what data/catalog.json holds when the fetch succeeds; the second catalog
\* has a track without a title
FetchedCatalogs ==
    { [tracks |-> << [id |-> 1, title |-> <<"A", "b">>, artist |-> <<"a">>] >>,
       albums |-> <<>>],
      [tracks |-> << [id |-> 1, artist |-> <<"B", "a">>] >>, albums |-> <<>>] }

\* what data/links.json holds when the fetch succeeds
FetchedLinks == { [tracks |-> <<>>, albums |-> <<>>] }

\* the session store when the page is opened: empty, an entry that does not
\* parse, or the entry an earlier page wrote
InitialCaches ==
    { NULL, Malformed,
      [catalog |-> CachedCatalog, links |-> [tracks |-> <<>>, albums |-> <<>>],
       timestamp |-> 0] }

\* how far the clock moves between two events
ClockSteps == {1, CACHE_DURATION}

\* loadJSON(url): the parsed body, or null when the fetch fails, the status
\* is not OK or the body does not parse
LoadJSON(bodies) == bodies \cup {NULL}

\* faulty variant: the parse error of a malformed entry is not caught
GetCache_ParseThrows(entry, t) ==
    IF entry = NULL THEN [data |-> NULL, store |-> entry, threw |-> FALSE]
    ELSE IF entry = Malformed THEN [data |-> NULL, store |-> entry, threw |-> TRUE]
    ELSE IF t - entry.timestamp > CACHE_DURATION
         THEN [data |-> NULL, store |-> NULL, threw |-> FALSE]
    ELSE [data |-> entry, store |-> entry, threw |-> FALSE]

\* faulty variant: the age of the entry is not looked at
GetCache_NoExpiry(entry, t) ==
    IF entry = NULL \/ entry = Malformed
    THEN [data |-> NULL, store |-> entry, threw |-> FALSE]
    ELSE [data |-> entry, store |-> entry, threw |-> FALSE]

\* getCache() at time t: what it returns, what it leaves in the session
\* store, and whether it throws (it never does: the catch returns null)
GetCache(entry, t) ==
    IF entry = NULL THEN [data |-> NULL, store |-> entry, threw |-> FALSE]
    ELSE IF entry = Malformed THEN [data |-> NULL, store |-> entry, threw |-> FALSE]
    ELSE IF t - entry.timestamp > CACHE_DURATION
         THEN [data |-> NULL, store |-> NULL, threw |-> FALSE]
    ELSE [data |-> entry, store |-> entry, threw |-> FALSE]

\* setCache(data) at time t: the session store afterwards.  setItem throws
\* when the store is full or disabled, and the catch leaves the store as is.
SetCache(store, data, t, accepted) ==
    IF accepted
    THEN [catalog |-> data.catalog, links |-> data.links, timestamp |-> t]
    ELSE store

\* faulty variant: the pair is cached when either file loaded
ShouldCache_Either(cat, lnk) == cat # NULL \/ lnk # NULL

\* if (catalog && links)
ShouldCache(cat, lnk) == cat # NULL /\ lnk # NULL

\* init from the assignment of catalog and links to its end: buildIndex when
\* there is a catalog, then isInitialized, the listeners and the value
\* catalog !== null; if buildIndex throws init rejects there
FinishOp(cat, lnk) ==
    LET r == IF cat # NULL THEN BuildIndexOp(cat)
             ELSE [index |-> searchIndex, threw |-> FALSE]
        built == IF cat # NULL THEN 1 ELSE 0
    IN  IF r.threw
        THEN [index |-> r.index, built |-> built, initialized |-> isInitialized,
              registered |-> 0, status |-> "rejected", value |-> NULL]
        ELSE [index |-> r.index, built |-> built, initialized |-> TRUE,
              registered |-> 1, status |-> "resolved", value |-> (cat # NULL)]

\* the assignments of init from catalog = ... on
Finish(cat, lnk) ==
    LET f == FinishOp(cat, lnk) IN
    /\ appCatalog' = cat
    /\ links' = lnk
    /\ searchIndex' = f.index
    /\ catalog' = IF cat # NULL THEN cat ELSE catalog
    /\ isInitialized' = f.initialized
    /\ effects' = [fetches |-> effects.fetches,
                   builds |-> effects.builds + f.built,
                   listeners |-> effects.listeners + f.registered]

\* what getCache found in the session store
Found(entry, t) ==
    IF entry = NULL THEN "absent"
    ELSE IF entry = Malformed THEN "malformed"
    ELSE IF t - entry.timestamp > CACHE_DURATION THEN "expired"
    ELSE "fresh"

\* NEUTRA.init() is called: it returns at once when already initialized,
\* runs to its end on a cache hit, and otherwise starts the two fetches and
\* waits for them
InitCalled ==
    LET id == Len(initCalls) + 1
        g == GetCache(sessionCache, now)
    IN
    /\ IF isInitialized
       THEN /\ initCalls' = Append(initCalls,
                    [status |-> "resolved", value |-> TRUE, cache |-> "skipped",
                     hadCatalog |-> appCatalog # NULL, hadLinks |-> links # NULL])
            /\ ret' = [op |-> "init", call |-> id, status |-> "resolved"]
            /\ UNCHANGED <<appCatalog, links, searchIndex, catalog, isInitialized,
                           effects, sessionCache>>
       ELSE IF g.threw
       THEN /\ initCalls' = Append(initCalls,
                    [status |-> "rejected", value |-> NULL, cache |-> "threw",
                     found |-> Found(sessionCache, now)])
            /\ ret' = [op |-> "init", call |-> id, status |-> "rejected"]
            /\ UNCHANGED <<appCatalog, links, searchIndex, catalog, isInitialized,
                           effects, sessionCache>>
       ELSE IF g.data # NULL
       THEN LET f == FinishOp(g.data.catalog, g.data.links) IN
            /\ sessionCache' = g.store
            /\ Finish(g.data.catalog, g.data.links)
            /\ initCalls' = Append(initCalls,
                    [status |-> f.status, value |-> f.value, cache |-> "hit",
                     found |-> Found(sessionCache, now),
                     age |-> now - sessionCache.timestamp,
                     hadCatalog |-> g.data.catalog # NULL,
                     hadLinks |-> g.data.links # NULL])
            /\ ret' = [op |-> "init", call |-> id, status |-> f.status]
       ELSE /\ sessionCache' = g.store
            /\ effects' = [effects EXCEPT !.fetches = @ + 1]
            /\ initCalls' = Append(initCalls,
                    [status |-> "pending", cache |-> "miss",
                     found |-> Found(sessionCache, now)])
            /\ ret' = [op |-> "init", call |-> id, status |-> "pending"]
            /\ UNCHANGED <<appCatalog, links, searchIndex, catalog, isInitialized>>
    /\ UNCHANGED <<debounceTimer, timers, nextTimerId, dropdown, page, urlQ,
                   calls, log, previous, input, now, history, loads,
                   inputValue, searches>>

\* the two fetches of the init call id have settled with catalogData and
\* linksData: init goes on from the await to its end
InitResumed(id, catalogData, linksData, accepted) ==
    LET f == FinishOp(catalogData, linksData) IN
    /\ initCalls[id].status = "pending"
    /\ sessionCache' =
            IF ShouldCache(catalogData, linksData)
            THEN SetCache(sessionCache,
                          [catalog |-> catalogData, links |-> linksData],
                          now, accepted)
            ELSE sessionCache
    /\ Finish(catalogData, linksData)
    /\ initCalls' = [initCalls EXCEPT ![id] =
            [status |-> f.status, value |-> f.value, cache |-> "miss",
             found |-> initCalls[id].found,
             loadedCatalog |-> catalogData # NULL,
             loadedLinks |-> linksData # NULL,
             accepted |-> accepted,
             hadCatalog |-> catalogData # NULL, hadLinks |-> linksData # NULL]]
    /\ ret' = [op |-> "init", call |-> id, status |-> f.status]
    /\ UNCHANGED <<debounceTimer, timers, nextTimerId, dropdown, page, urlQ,
                   calls, log, previous, input, now, history, loads,
                   inputValue, searches>>

\* time passes
ClockAdvances(d) ==
    /\ now' = now + d
    /\ ret' = [op |-> "clock"]
    /\ UNCHANGED <<searchIndex, debounceTimer, timers, nextTimerId, dropdown,
                   page, urlQ, catalog, calls, log, previous, input, appCatalog,
                   links, isInitialized, sessionCache, initCalls, effects,
                   history, loads, inputValue, searches>>

InitApp ==
    /\ searchIndex = NULL
    /\ debounceTimer = 0
    /\ timers = {}
    /\ nextTimerId = 1
    /\ dropdown = [active |-> FALSE, html |-> ""]
    /\ page = [emptyState |-> TRUE, noResults |-> FALSE, tracks |-> FALSE,
               albums |-> FALSE, artists |-> FALSE]
    /\ urlQ = NULL
    /\ catalog = NULL
    /\ ret = [op |-> "none"]
    /\ calls = <<>>
    /\ log = <<>>
    /\ nOps = 0
    /\ previous = NULL
    /\ input = NULL
    /\ appCatalog = NULL
    /\ links = NULL
    /\ isInitialized = FALSE
    /\ sessionCache \in InitialCaches
    /\ now = 0
    /\ initCalls = <<>>
    /\ effects = [fetches |-> 0, builds |-> 0, listeners |-> 0]
    /\ history = << <<>> >>
    /\ loads = 0
    /\ inputValue = [global |-> <<>>, page |-> <<>>]
    /\ searches = <<>>

CallInit == Step(MaxAppEvents) /\ InitCalled

FetchesSettle(id, catalogData, linksData, accepted) ==
    Step(MaxAppEvents) /\ InitResumed(id, catalogData, linksData, accepted)

Tick(d) == Step(MaxAppEvents) /\ ClockAdvances(d)

NextApp ==
    \/ CallInit
    \/ \E id \in 1..Len(initCalls), catalogData \in LoadJSON(FetchedCatalogs),
          linksData \in LoadJSON(FetchedLinks), accepted \in BOOLEAN :
            FetchesSettle(id, catalogData, linksData, accepted)
    \/ \E d \in ClockSteps : Tick(d)

SpecApp == InitApp /\ [][NextApp]_vars

-----------------------------------------------------------------------------
(* formatDuration.  A duration is undefined, NaN or a number of seconds    *)
(* that is a multiple of one half: whole seconds as a track's duration      *)
(* has, and a fraction as the position of the audio element has.           *)

NAN == [nan |-> TRUE]

\* the number h / 2
Halves(h) == [halves |-> h]

\* durations longer than MaxSeconds: ten minutes, an hour and more
LongDurations == {599, 600, 3599, 3600, 6039}

Durations ==
    {UNDEFINED, NAN}
    \cup {Halves(h) : h \in 0..(2 * MaxSeconds)}
    \cup {Halves(2 * s) : s \in LongDurations}

DigitChars == <<"0", "1", "2", "3", "4", "5", "6", "7", "8", "9">>

\* Number.prototype.toString of a natural number
NumberToString(n) ==
    LET d == CHOOSE k \in 1..7 : (k = 1 \/ 10^(k - 1) <= n) /\ n < 10^k
    IN  [i \in 1..d |-> DigitChars[((n \div 10^(d - i)) % 10) + 1]]

\* faulty variant: no padding
PadStart_None(s, length, fill) == s

\* String.prototype.padStart with a fill of one character
PadStart(s, length, fill) ==
    IF Len(s) >= length THEN s
    ELSE [i \in 1..(length - Len(s)) |-> fill] \o s

\* !seconds
Falsy(seconds) == seconds \in {UNDEFINED, NAN, Halves(0)}

\* isNaN(seconds)
IsNaN(seconds) == seconds \in {UNDEFINED, NAN}

\* formatDuration(seconds)
FormatDuration(seconds) ==
    IF Falsy(seconds) \/ IsNaN(seconds) THEN <<"0", ":", "0", "0">>
    ELSE LET mins == seconds.halves \div 120
             secs == (seconds.halves % 120) \div 2
         IN  NumberToString(mins) \o <<":">>
                 \o PadStart(NumberToString(secs), 2, "0")

InitFormat ==
    /\ searchIndex = NULL
    /\ debounceTimer = 0
    /\ timers = {}
    /\ nextTimerId = 1
    /\ dropdown = [active |-> FALSE, html |-> ""]
    /\ page = [emptyState |-> TRUE, noResults |-> FALSE, tracks |-> FALSE,
               albums |-> FALSE, artists |-> FALSE]
    /\ urlQ = NULL
    /\ catalog = NULL
    /\ ret = [op |-> "none"]
    /\ calls = <<>>
    /\ log = <<>>
    /\ nOps = 0
    /\ previous = NULL
    /\ input \in Durations
    /\ appCatalog = NULL
    /\ links = NULL
    /\ isInitialized = FALSE
    /\ sessionCache = NULL
    /\ now = 0
    /\ initCalls = <<>>
    /\ effects = [fetches |-> 0, builds |-> 0, listeners |-> 0]
    /\ history = << <<>> >>
    /\ loads = 0
    /\ inputValue = [global |-> <<>>, page |-> <<>>]
    /\ searches = <<>>

\* NEUTRA.formatDuration(seconds)
CallFormatDuration ==
    /\ ret' = [op |-> "formatDuration", value |-> FormatDuration(input)]
    /\ UNCHANGED <<searchIndex, debounceTimer, timers, nextTimerId, dropdown,
                   page, urlQ, catalog, calls, log, nOps>>
    /\ UNCHANGED others

NextFormat == CallFormatDuration

SpecFormat == InitFormat /\ [][NextFormat]_vars

-----------------------------------------------------------------------------
(* Properties of the debounce, checked under SpecDebounce *)

Runs(i) == {k \in 1..Len(log) : log[k].call = i}

IsPending(i) == \E t \in timers : t.call = i

\* C1: of the invocations of debouncedSearch that arrive while the timer of
\* the previous one is pending, only the last one's callback runs: once its
\* timer has fired that callback has run exactly once, with
\* search(lastQuery, lastOptions) and lastQuery, and no callback of a
\* superseded invocation ever runs.
C1_Coalescing ==
    /\ \A i \in 1..Len(calls) :
        /\ calls[i].superseded => Runs(i) = {}
        /\ calls[i].fired
            => /\ Cardinality(Runs(i)) = 1
               /\ \A k \in Runs(i) : log[k].query = calls[i].query
        /\ Cardinality(Runs(i)) <= 1
    /\ ret.op = "timer"
        => /\ Len(log) > 0
           /\ log[Len(log)].call = ret.call
           /\ log[Len(log)].results =
                SearchOp(searchIndex, calls[ret.call].query,
                         calls[ret.call].options).value

\* C2: cancelSearch clears the pending invocation without running it: the
\* callback of a cancelled invocation never runs and its timer is no longer
\* pending; cancelSearch with nothing pending changes nothing.
C2_CancelClears ==
    /\ [](\A i \in 1..Len(calls) :
            calls[i].cancelled => (Runs(i) = {} /\ ~IsPending(i)))
    /\ [][(ret'.op = "cancelSearch" /\ timers = {})
            => UNCHANGED <<searchIndex, debounceTimer, timers, nextTimerId,
                           dropdown, page, urlQ, catalog, calls, log>>]_vars

C2_Witness ==
    /\ \E i \in 1..Len(calls) : calls[i].cancelled /\ i < Len(calls)
    /\ Len(log) > 0
    /\ log[Len(log)].call = Len(calls)

\* C3: at most one debounced invocation is pending, whichever of the two
\* handlers made the calls: the pending one is the latest invocation, and a
\* new invocation removes the one that was pending.
C3_SinglePendingSlot ==
    /\ Cardinality(timers) <= 1
    /\ \A t \in timers : t.call = Len(calls) /\ t.id = debounceTimer
    /\ \A i \in 1..Len(calls) : calls[i].superseded => ~IsPending(i)

C3_Witness ==
    /\ Cardinality(timers) = 1
    /\ \E i \in 1..(Len(calls) - 1) :
        /\ calls[i].superseded
        /\ calls[i].owner = "dropdown"
        /\ calls[i + 1].owner = "page"

-----------------------------------------------------------------------------
(* Properties of buildIndex and search, checked under Spec *)

NumTracks(cat) == IF Has(cat, "tracks") THEN Len(cat.tracks) ELSE 0
NumAlbums(cat) == IF Has(cat, "albums") THEN Len(cat.albums) ELSE 0
CatalogTracks == IF catalog # NULL /\ Has(catalog, "tracks") THEN catalog.tracks ELSE <<>>

\* the last buildIndex call returned normally
IndexComplete == searchIndex # NULL /\ searchIndex.artistsKind = "Array"

Searched == ret.op = "search"
Returned == ret.op = "search" /\ ~ret.threw

\* the query is the empty string or whitespace only
Blank(query) == \A i \in 1..Len(query) : query[i] = " "

LowerTitle(rec) == ToLowerCase(rec.title)
LowerArtist(rec) == ToLowerCase(rec.artist)
LowerAlbum(rec) == IF Has(rec, "album") THEN ToLowerCase(rec.album) ELSE <<>>

InSeq(x, seq) == \E i \in 1..Len(seq) : seq[i] = x

\* C4: the index is never observable half-built: it is null, or it holds one
\* entry per track and per album of the catalog of the last buildIndex and an
\* artists array.
C4_NeverHalfBuilt ==
    \/ searchIndex = NULL
    \/ /\ Len(searchIndex.tracks) = NumTracks(catalog)
       /\ Len(searchIndex.albums) = NumAlbums(catalog)
       /\ searchIndex.artistsKind = "Array"

\* C5: search returns three empty sequences, and does not throw, when no
\* index has been built and, whatever was passed to buildIndex, when the
\* query is empty or whitespace only.
C5_EmptyResults ==
    (Searched /\ (searchIndex = NULL \/ Blank(ret.query)))
        => (~ret.threw /\ ret.value = EmptyResults)

C5_Witness ==
    /\ Searched /\ ~ret.threw
    /\ ret.query = <<" ">>
    /\ searchIndex # NULL
    /\ \E i \in 1..Len(searchIndex.tracks) : Includes(searchIndex.tracks[i].title, <<" ">>)
    /\ ret.value = EmptyResults

\* C6 as stated: after buildIndex(catalog), for every non-empty query Q, every
\* track whose title contains Q case-insensitively is in search(Q).tracks.
C6_Original ==
    (Searched /\ IndexComplete /\ ret.query # <<>> /\ ret.options = NoOptions)
        => /\ ~ret.threw
           /\ \A i \in 1..Len(CatalogTracks) :
                Includes(LowerTitle(CatalogTracks[i]), ToLowerCase(ret.query))
                    => InSeq(CatalogTracks[i], ret.value.tracks)

\* the tracks of the catalog that the query q matches, by position
C6_Matching(q) ==
    {i \in 1..Len(CatalogTracks) :
        \/ Includes(LowerTitle(CatalogTracks[i]), q)
        \/ Includes(LowerArtist(CatalogTracks[i]), q)
        \/ Includes(LowerAlbum(CatalogTracks[i]), q)}

C6_LimitInEffect(options) ==
    IF Has(options, "limit") /\ options.limit # 0 THEN options.limit ELSE 50

\* C6 as amended: after buildIndex(catalog) has returned, for every query Q
\* that is not empty after trimming, every track whose title contains the
\* trimmed Q case-insensitively is in search(Q, options).tracks, provided
\* the number of tracks Q matches does not exceed the limit in effect.
C6_TitleMatchesReturned ==
    (Searched /\ IndexComplete /\ ~Blank(ret.query))
        => /\ ~ret.threw
           /\ LET q == Trim(ToLowerCase(ret.query)) IN
              Cardinality(C6_Matching(q)) <= C6_LimitInEffect(ret.options)
                => \A i \in 1..Len(CatalogTracks) :
                      Includes(LowerTitle(CatalogTracks[i]), q)
                          => InSeq(CatalogTracks[i], ret.value.tracks)

C6_Witness ==
    /\ Returned /\ IndexComplete
    /\ ret.query = <<"A", " ">>
    /\ ret.options = [limit |-> 2]
    /\ Len(ret.value.tracks) = 2
    /\ \E i \in 1..2 : ret.value.tracks[i].title = <<"b", " ", "a">>

\* what the artist and the album of a track add to its score
C7_Rest(rec, q) ==
    (IF StartsWith(LowerArtist(rec), q) THEN 80
     ELSE IF Includes(LowerArtist(rec), q) THEN 40 ELSE 0)
    + (IF Includes(LowerAlbum(rec), q) THEN 20 ELSE 0)

\* C7: in search(Q).tracks, of two tracks with the same artist and album
\* contribution, one whose lower-cased title starts with the query is never
\* placed after one whose title only contains it.
C7_PrefixFirst ==
    Returned =>
        LET q == Trim(ToLowerCase(ret.query))
            r == ret.value.tracks
        IN  \A i, j \in 1..Len(r) :
                ( /\ i < j
                  /\ C7_Rest(r[i], q) = C7_Rest(r[j], q)
                  /\ StartsWith(LowerTitle(r[j]), q) )
                => ~( /\ Includes(LowerTitle(r[i]), q)
                      /\ ~StartsWith(LowerTitle(r[i]), q) )

C7_Witness ==
    /\ Returned
    /\ ret.query = <<"b">>
    /\ Len(ret.value.tracks) = 2
    /\ ret.value.tracks[1].id = 2 /\ ret.value.tracks[1].title = <<"b", " ", "a">>
    /\ ret.value.tracks[2].id = 1 /\ ret.value.tracks[2].title = <<"A", "b">>

\* C8: for every limit L passed in options.limit, 0 included, tracks and
\* albums of search(Q, {limit: L}) each hold at most L records, and at most
\* 50 when no limit is passed.
C8_AtMostLimit ==
    Returned =>
        LET L == IF Has(ret.options, "limit") THEN ret.options.limit ELSE 50
        IN  Len(ret.value.tracks) <= L /\ Len(ret.value.albums) <= L

\* the scores search has left on the entries of the index
TrackScores ==
    IF searchIndex = NULL THEN {}
    ELSE {searchIndex.tracks[i].score :
            i \in {k \in 1..Len(searchIndex.tracks) : Has(searchIndex.tracks[k], "score")}}

AlbumScores ==
    IF searchIndex = NULL THEN {}
    ELSE {searchIndex.albums[i].score :
            i \in {k \in 1..Len(searchIndex.albums) : Has(searchIndex.albums[k], "score")}}

\* C9 as stated: a track's score never exceeds 170, an album's never 120.
C9_Original ==
    /\ \A s \in TrackScores : s <= 170
    /\ \A s \in AlbumScores : s <= 120

\* C9 as amended: with the weights title prefix 100 else title substring 50,
\* artist prefix 80 else artist substring 40, album substring (tracks) 20,
\* a track's score never exceeds 200 and an album's never exceeds 180.
C9_ScoreBounds ==
    /\ \A s \in TrackScores :
          /\ s <= 200
          /\ \E t \in {0, 50, 100}, a \in {0, 40, 80}, b \in {0, 20} :
                s = t + a + b /\ s > 0
    /\ \A s \in AlbumScores :
          /\ s <= 180
          /\ \E t \in {0, 50, 100}, a \in {0, 40, 80} : s = t + a /\ s > 0

C9_Witness ==
    /\ Returned
    /\ 200 \in TrackScores
    /\ 180 \in AlbumScores

\* the score of a catalog record for the query q, by the fixed weights
C10_Score(rec, q) ==
    (IF StartsWith(LowerTitle(rec), q) THEN 100
     ELSE IF Includes(LowerTitle(rec), q) THEN 50 ELSE 0)
    + C7_Rest(rec, q)

C10_Ordered(r, q) ==
    \A i, j \in 1..Len(r) :
        i < j => \/ C10_Score(r[i], q) > C10_Score(r[j], q)
                 \/ /\ C10_Score(r[i], q) = C10_Score(r[j], q)
                    /\ r[i].id < r[j].id

\* C10: tracks and albums of a search result are in descending order of
\* score, and results of equal score are in the order of their records in
\* the catalog.
C10_DescendingStable ==
    Returned =>
        LET q == Trim(ToLowerCase(ret.query))
        IN  C10_Ordered(ret.value.tracks, q) /\ C10_Ordered(ret.value.albums, q)

C10_Witness ==
    /\ Returned
    /\ ret.query = <<"a">>
    /\ Len(ret.value.albums) = 3
    /\ ret.value.albums[1].id = 2
    /\ ret.value.albums[2].id = 3
    /\ ret.value.albums[3].id = 1
    /\ ret.value.albums[1] = [ret.value.albums[2] EXCEPT !.id = 2]

CatalogAlbums == IF catalog # NULL /\ Has(catalog, "albums") THEN catalog.albums ELSE <<>>

\* C11: every element of search(Q).tracks and search(Q).albums is a record of
\* the catalog as it was passed to buildIndex (same fields, original case, no
\* score), and the records the index entries refer to stay equal to the
\* catalog's records whatever searches have run.
C11_OriginalsUntouched ==
    /\ Returned =>
        /\ \A i \in 1..Len(ret.value.tracks) :
              /\ InSeq(ret.value.tracks[i], CatalogTracks)
              /\ ~Has(ret.value.tracks[i], "score")
        /\ \A i \in 1..Len(ret.value.albums) :
              /\ InSeq(ret.value.albums[i], CatalogAlbums)
              /\ ~Has(ret.value.albums[i], "score")
    /\ searchIndex # NULL =>
        /\ \A i \in 1..Len(searchIndex.tracks) :
              searchIndex.tracks[i].original = CatalogTracks[i]
        /\ \A i \in 1..Len(searchIndex.albums) :
              searchIndex.albums[i].original = CatalogAlbums[i]

C11_Witness ==
    /\ Returned
    /\ Len(ret.value.tracks) > 0
    /\ ret.value.tracks[1].title = <<"A", "b">>
    /\ Len(ret.value.albums) > 0
    /\ ret.value.albums[1].artist = <<"B">>
    /\ \E i \in 1..Len(searchIndex.tracks) :
          /\ Has(searchIndex.tracks[i], "score")
          /\ searchIndex.tracks[i].original = ret.value.tracks[1]
          /\ searchIndex.tracks[i].title # ret.value.tracks[1].title

IndexedArtists == IF searchIndex = NULL THEN <<>> ELSE searchIndex.artists

\* the names that contain q in lower case, in their order, at most 10 of them
C12_Expected(names, q) ==
    LET M == {i \in 1..Len(names) : Includes(ToLowerCase(names[i]), q)}
        n == IF Cardinality(M) > 10 THEN 10 ELSE Cardinality(M)
    IN  [k \in 1..n |->
            names[CHOOSE i \in M : Cardinality({j \in M : j <= i}) = k]]

\* C12 as stated: for every non-empty query Q, search(Q).artists is the
\* indexed artist names whose lower-cased form contains the lower-cased
\* trimmed Q, in index order, cut to 10.
C12_Original ==
    (Returned /\ ret.query # <<>>)
        => ret.value.artists
             = C12_Expected(IndexedArtists, Trim(ToLowerCase(ret.query)))

\* C12 as amended: for every query Q that is not empty after trimming,
\* search(Q).artists is the indexed artist names whose lower-cased form
\* contains the lower-cased trimmed Q, in index order, cut to 10, whatever
\* options.limit is; for a query that is empty after trimming it is empty.
C12_ArtistsResult ==
    Returned =>
        /\ Len(ret.value.artists) <= 10
        /\ ~Blank(ret.query)
            => ret.value.artists
                 = C12_Expected(IndexedArtists, Trim(ToLowerCase(ret.query)))
        /\ Blank(ret.query) => ret.value.artists = <<>>

C12_Witness ==
    /\ Returned
    /\ ret.options = [limit |-> 1]
    /\ Len(IndexedArtists) = 11
    /\ Len(ret.value.tracks) = 1
    /\ Len(ret.value.artists) = 10
    /\ ret.value.artists[10] = IndexedArtists[10]

\* the artist of every track, then of every album, of the catalog
C13_Names ==
    [i \in 1..Len(CatalogTracks) |-> CatalogTracks[i].artist]
        \o [i \in 1..Len(CatalogAlbums) |-> CatalogAlbums[i].artist]

C13_FirstAt(name) ==
    CHOOSE k \in 1..Len(C13_Names) :
        /\ C13_Names[k] = name
        /\ \A m \in 1..(k - 1) : C13_Names[m] # name

\* C13: once buildIndex(catalog) has returned, the artists of the index hold
\* each artist name of the catalog exactly once, in the order in which the
\* names are first met scanning the tracks and then the albums.
C13_ArtistsDistinctInOrder ==
    IndexComplete =>
        LET a == searchIndex.artists IN
        /\ \A k \in 1..Len(C13_Names) : InSeq(C13_Names[k], a)
        /\ \A i \in 1..Len(a) : InSeq(a[i], C13_Names)
        /\ \A i, j \in 1..Len(a) :
              i < j => /\ a[i] # a[j]
                       /\ C13_FirstAt(a[i]) < C13_FirstAt(a[j])

C13_Witness ==
    /\ ret.op = "buildIndex" /\ ~ret.threw
    /\ Len(C13_Names) = 5
    /\ searchIndex.artists = << <<"B">>, <<"a">>, <<"A">> >>

-----------------------------------------------------------------------------
(* Properties of a rebuilt index, checked under SpecRebuild *)

\* the first min(limit, |M|) records of recs among the positions M, by
\* descending score and, for equal scores, ascending position
C14_Top(recs, M, q, limit) ==
    LET rank(i) == Cardinality({j \in M : C10_Score(recs[j], q) > C10_Score(recs[i], q)})
                   + Cardinality({j \in M : /\ C10_Score(recs[j], q) = C10_Score(recs[i], q)
                                            /\ j <= i})
        n == IF Cardinality(M) > limit THEN limit ELSE Cardinality(M)
    IN  [p \in 1..n |-> recs[CHOOSE i \in M : rank(i) = p]]

\* the artist names of the catalog, each at its first occurrence
C14_Artists ==
    LET F == {k \in 1..Len(C13_Names) :
                \A m \in 1..(k - 1) : C13_Names[m] # C13_Names[k]}
    IN  [p \in 1..Cardinality(F) |->
            C13_Names[CHOOSE k \in F : Cardinality({m \in F : m <= k}) = p]]

\* what search(query, options) returns after buildIndex(cat) alone, cat
\* being the catalog of the last buildIndex
C14_Alone(query, options) ==
    LET q == Trim(ToLowerCase(query))
        TM == C6_Matching(q)
        AM == {i \in 1..Len(CatalogAlbums) :
                  \/ Includes(LowerTitle(CatalogAlbums[i]), q)
                  \/ Includes(LowerArtist(CatalogAlbums[i]), q)}
    IN  IF q = <<>> THEN EmptyResults
        ELSE [tracks |-> C14_Top(CatalogTracks, TM, q, C6_LimitInEffect(options)),
              albums |-> C14_Top(CatalogAlbums, AM, q, C6_LimitInEffect(options)),
              artists |-> C12_Expected(C14_Artists, q)]

\* C14: buildIndex replaces the whole index.  Once buildIndex(c2) has
\* returned, whatever was built and searched before, the index holds the
\* records of c2 and no others, every search returns what it returns after
\* buildIndex(c2) alone, and so nothing that occurs only in an earlier
\* catalog is returned.
C14_ReplaceWhole ==
    IndexComplete =>
        /\ Len(searchIndex.tracks) = Len(CatalogTracks)
        /\ Len(searchIndex.albums) = Len(CatalogAlbums)
        /\ searchIndex.artists = C14_Artists
        /\ Returned =>
            /\ ret.value = C14_Alone(ret.query, ret.options)
            /\ \A i \in 1..Len(ret.value.tracks) :
                  InSeq(ret.value.tracks[i], CatalogTracks)
            /\ \A i \in 1..Len(ret.value.albums) :
                  InSeq(ret.value.albums[i], CatalogAlbums)
            /\ \A i \in 1..Len(ret.value.artists) :
                  InSeq(ret.value.artists[i], C13_Names)

\* the first catalog had a track, three albums and artists that the second
\* has not, all matching the query; the search after the second buildIndex
\* returns the second catalog's track only
C14_Witness ==
    /\ Returned /\ IndexComplete
    /\ nOps = 3
    /\ previous # NULL
    /\ Len(previous.tracks) = 1 /\ ~Throws(previous.tracks[1])
    /\ Len(previous.albums) = 3
    /\ Len(CatalogTracks) = 1 /\ Len(CatalogAlbums) = 0
    /\ previous.tracks[1] # CatalogTracks[1]
    /\ ret.query = <<"a">>
    /\ ret.value = [tracks |-> CatalogTracks, albums |-> <<>>,
                    artists |-> << CatalogTracks[1].artist >>]

-----------------------------------------------------------------------------
(* Properties of highlight, checked under SpecHighlight *)

C15_RemoveMarks(s) ==
    LET NotMark(c) == c \notin {"<mark>", "</mark>"}
    IN  SelectSeq(s, NotMark)

\* the text from position i on, escaped, with the occurrences of q in the
\* text (letter case ignored, left to right, not overlapping) wrapped
RECURSIVE C15_Marked(_, _, _)
C15_Marked(text, q, i) ==
    IF i > Len(text) THEN <<>>
    ELSE IF /\ i + Len(q) - 1 <= Len(text)
            /\ ToLowerCase(SubSeq(text, i, i + Len(q) - 1)) = ToLowerCase(q)
         THEN <<"<mark>">> \o EscapeHtml(SubSeq(text, i, i + Len(q) - 1))
                \o <<"</mark>">> \o C15_Marked(text, q, i + Len(q))
    ELSE EscapeHtml(<<text[i]>>) \o C15_Marked(text, q, i + 1)

\* C15: highlight(text, q) without its mark tags is escapeHtml(text), and
\* for a query q that is not blank the marked parts are exactly the
\* occurrences of the trimmed q in the text: no part of an entity made by
\* the escaping is marked unless it is such an occurrence.
C15_HighlightExact ==
    ret.op = "highlight" =>
        /\ C15_RemoveMarks(ret.value) = EscapeHtml(input.text)
        /\ ~Blank(input.query)
            => ret.value = C15_Marked(input.text, Trim(input.query), 1)

C16_Plain(text) == \A i \in 1..Len(text) : text[i] \notin {"&", "<", ">"}

-----------------------------------------------------------------------------
(* Properties of init and the session cache, checked under SpecApp *)

\* the init call i went through the fetches and has settled
C17_Fetched(i) ==
    initCalls[i].cache = "miss" /\ initCalls[i].status # "pending"

\* C17: init resolves to true only if the catalog and the links are both
\* loaded, and a call whose catalog fetch or links fetch failed resolves,
\* if it resolves, to false.
C17_SuccessNeedsBoth ==
    \A i \in 1..Len(initCalls) :
        initCalls[i].status = "resolved" =>
            /\ initCalls[i].value = TRUE
                => (initCalls[i].hadCatalog /\ initCalls[i].hadLinks)
            /\ (C17_Fetched(i)
                  /\ ~(initCalls[i].loadedCatalog /\ initCalls[i].loadedLinks))
                => initCalls[i].value = FALSE

\* the step is the one in which the fetches of the init call i settle
C18_Settles(i) ==
    /\ i \in 1..Len(initCalls)
    /\ initCalls[i].status = "pending"
    /\ initCalls'[i].status # "pending"

C18_Entry == [catalog |-> appCatalog', links |-> links', timestamp |-> now]

\* whichever file loaded is in the module state, the other is null
C18_Assigned(i) ==
    /\ initCalls'[i].loadedCatalog <=> appCatalog' # NULL
    /\ initCalls'[i].loadedLinks <=> links' # NULL
    /\ appCatalog' # NULL => appCatalog' \in FetchedCatalogs
    /\ links' # NULL => links' \in FetchedLinks

\* C18 as stated: on a cache miss init writes the cache entry if and only if
\* both fetches succeeded; when one of them failed the store is left as it
\* was, and what loaded is assigned to the module state all the same.
C18_Original ==
    [][\A i \in 1..Len(initCalls) : C18_Settles(i) =>
          /\ (initCalls'[i].loadedCatalog /\ initCalls'[i].loadedLinks)
                <=> sessionCache' = C18_Entry
          /\ ~(initCalls'[i].loadedCatalog /\ initCalls'[i].loadedLinks)
                => UNCHANGED sessionCache
          /\ C18_Assigned(i)]_vars

\* C18 as amended: on a cache miss init writes the cache entry only if both
\* fetches succeeded, and then it does unless the session store refuses the
\* write (full or disabled), which init ignores; when one of them failed the
\* store is left as it was; in every case what loaded is assigned to the
\* module state and what did not is null.
C18_CacheOnlyBoth ==
    [][\A i \in 1..Len(initCalls) : C18_Settles(i) =>
          /\ (initCalls'[i].loadedCatalog /\ initCalls'[i].loadedLinks
                /\ initCalls'[i].accepted)
                => sessionCache' = C18_Entry
          /\ ~(initCalls'[i].loadedCatalog /\ initCalls'[i].loadedLinks
                /\ initCalls'[i].accepted)
                => UNCHANGED sessionCache
          /\ C18_Assigned(i)]_vars

C18_Witness ==
    /\ Len(initCalls) = 1
    /\ initCalls[1].cache = "miss" /\ initCalls[1].status = "resolved"
    /\ initCalls[1].loadedCatalog /\ ~initCalls[1].loadedLinks
    /\ appCatalog \in FetchedCatalogs
    /\ links = NULL
    /\ sessionCache = NULL

\* the step is a call of init made before initialization has completed
C19_Consults ==
    /\ Len(initCalls') = Len(initCalls) + 1
    /\ ~isInitialized

C19_Parses == sessionCache # NULL /\ sessionCache # Malformed

\* C19: init uses a cache entry only while its age is at most 5 minutes
\* (300000 ms): it then takes catalog and links from the entry and fetches
\* nothing; an older entry is removed from the session store and init starts
\* a fresh fetch of both files.  No call was ever served an entry older than
\* 5 minutes.
C19_FreshOnly ==
    /\ [](\A i \in 1..Len(initCalls) :
            initCalls[i].cache = "hit" => initCalls[i].age <= 300000)
    /\ [][(C19_Consults /\ C19_Parses) =>
            IF now - sessionCache.timestamp <= 300000
            THEN /\ initCalls'[Len(initCalls')].cache = "hit"
                 /\ appCatalog' = sessionCache.catalog
                 /\ links' = sessionCache.links
                 /\ effects'.fetches = effects.fetches
                 /\ UNCHANGED sessionCache
            ELSE /\ initCalls'[Len(initCalls')].cache = "miss"
                 /\ initCalls'[Len(initCalls')].status = "pending"
                 /\ sessionCache' = NULL
                 /\ effects'.fetches = effects.fetches + 1
                 /\ UNCHANGED <<appCatalog, links>>]_vars

C19_Witness ==
    /\ now = 300001
    /\ Len(initCalls) = 1
    /\ initCalls[1].found = "expired"
    /\ initCalls[1].status = "pending"
    /\ sessionCache = NULL
    /\ effects.fetches = 1
    /\ appCatalog = NULL

\* C20: an entry that does not parse is a miss.  getCache does not throw,
\* and init does what it does when there is no entry: it leaves the module
\* state alone, starts the fetch of both files and waits for them.
C20_MalformedIsMiss ==
    /\ [](\A i \in 1..Len(initCalls) :
            (initCalls[i].cache # "skipped" /\ initCalls[i].found = "malformed")
                => initCalls[i].cache = "miss")
    /\ [][(C19_Consults /\ sessionCache \in {NULL, Malformed}) =>
            /\ initCalls'[Len(initCalls')].cache = "miss"
            /\ initCalls'[Len(initCalls')].status = "pending"
            /\ effects'.fetches = effects.fetches + 1
            /\ effects'.builds = effects.builds
            /\ UNCHANGED <<appCatalog, links, isInitialized, searchIndex,
                           sessionCache>>]_vars

C20_Witness ==
    /\ Len(initCalls) = 1
    /\ initCalls[1].found = "malformed"
    /\ initCalls[1].status = "resolved" /\ initCalls[1].value = TRUE
    /\ appCatalog \in FetchedCatalogs
    /\ links \in FetchedLinks
    /\ sessionCache = [catalog |-> appCatalog, links |-> links, timestamp |-> now]

-----------------------------------------------------------------------------
(* Properties of Router.updateParams *)

\* the names of the entries of a parameter object
C21_Keys(entries) == {entries[i].key : i \in 1..Len(entries)}

\* the pairs of a query string whose name is not a key of the object
C21_Others(search, entries) ==
    LET NotIn(pair) == pair.key \notin C21_Keys(entries)
    IN  SelectSeq(ParseQuery(search), NotIn)

\* the values a query string has for a name, in order
C21_ValuesOf(search, key) ==
    LET params == ParseQuery(search)
        Named(pair) == pair.key = key
        named == SelectSeq(params, Named)
    IN  [i \in 1..Len(named) |-> named[i].value]

\* C21: Router.updateParams(p) changes the query parameters of the current
\* URL so that every key of p whose value is null, undefined or the empty
\* string is absent, every other key of p is present once with its value,
\* and the parameters whose key is not in p are the same as before, in the
\* same order; the current history entry is replaced: no entry is added, the
\* earlier entries are kept and no page is loaded.
C21_UpdateParams ==
    [][ret'.op = "updateParams" =>
        LET p == ret'.params
            after == history'[Len(history')]
        IN  /\ \A i \in 1..Len(p) :
                    IF p[i].value \in {NULL, UNDEFINED, Str(<<>>)}
                    THEN C21_ValuesOf(after, p[i].key) = <<>>
                    ELSE C21_ValuesOf(after, p[i].key) = <<StringOf(p[i].value)>>
            /\ C21_Others(after, p) = C21_Others(Current, p)
            /\ Len(history') = Len(history)
            /\ SubSeq(history', 1, Len(history) - 1)
                    = SubSeq(history, 1, Len(history) - 1)
            /\ loads' = loads]_vars

\* updateParams has deleted one key and set another on a URL that keeps a
\* parameter of a third name
C21_Witness ==
    /\ ret.op = "updateParams"
    /\ \E i, j \in 1..Len(ret.params) :
            /\ ret.params[i].value = NULL
            /\ ret.params[j].value = Str(<<"a", " ", "b">>)
            /\ GetParam(Current, ret.params[j].key) = <<"a", " ", "b">>
    /\ C21_Others(Current, ret.params) # <<>>

-----------------------------------------------------------------------------
(* Properties of formatDuration, checked under SpecFormat *)

\* the natural number a sequence of decimal digits writes, -1 if it is not one
C22_NumberOf(chars) ==
    LET ValueOf(c) == (CHOOSE k \in 1..10 : DigitChars[k] = c) - 1
        IsDigit(c) == \E k \in 1..10 : DigitChars[k] = c
        RECURSIVE Sum(_)
        Sum(n) == IF n = 0 THEN 0 ELSE 10 * Sum(n - 1) + ValueOf(chars[n])
    IN  IF chars = <<>> \/ \E i \in 1..Len(chars) : ~IsDigit(chars[i])
        THEN -1
        ELSE Sum(Len(chars))

\* the text before the colon and the text after it
C22_Fields(text) ==
    LET at == CHOOSE i \in 1..Len(text) : text[i] = ":"
    IN  [mins |-> SubSeq(text, 1, at - 1), secs |-> SubSeq(text, at + 1, Len(text))]

\* C22: formatDuration returns "0:00" for 0, undefined and NaN; for a
\* positive whole number of seconds s it returns floor(s / 60) in decimal
\* without leading zeros, a colon, and s mod 60 written with two digits; for
\* every duration the seconds field has two digits and lies between 00 and 59.
C22_FormatDuration ==
    ret.op = "formatDuration" =>
        LET f == C22_Fields(ret.value) IN
        /\ input \in {Halves(0), UNDEFINED, NAN} => ret.value = <<"0", ":", "0", "0">>
        /\ (input \notin {UNDEFINED, NAN} /\ input.halves > 0 /\ input.halves % 2 = 0) =>
                LET s == input.halves \div 2 IN
                /\ C22_NumberOf(f.mins) = s \div 60
                /\ Len(f.mins) > 1 => f.mins[1] # "0"
                /\ Len(f.secs) = 2
                /\ C22_NumberOf(f.secs) = s % 60
        /\ Cardinality({i \in 1..Len(ret.value) : ret.value[i] = ":"}) = 1
        /\ Len(f.secs) = 2
        /\ C22_NumberOf(f.secs) \in 0..59

\* 125 seconds are written "2:05"
C22_Witness ==
    /\ ret.op = "formatDuration"
    /\ input = Halves(250)
    /\ ret.value = <<"2", ":", "0", "5">>

-----------------------------------------------------------------------------
(* Properties of search, checked under Spec: what a result may contain *)

\* the query as search compares it: lower-cased and trimmed
C23_Needle == Trim(ToLowerCase(ret.query))

C23_TrackHas(t, q) ==
    \/ Includes(LowerTitle(t), q)
    \/ Includes(LowerArtist(t), q)
    \/ Has(t, "album") /\ Includes(ToLowerCase(t.album), q)

C23_AlbumHas(a, q) ==
    Includes(LowerTitle(a), q) \/ Includes(LowerArtist(a), q)

\* C23: no false positives: every track of search(Q).tracks has the
\* lower-cased trimmed Q in its lower-cased title, artist or album, a track
\* without an album in its title or artist; every album of search(Q).albums
\* has it in its own lower-cased title or artist, whatever the album fields
\* of the tracks are.
C23_NoFalsePositives ==
    Returned =>
        /\ \A i \in 1..Len(ret.value.tracks) :
                C23_TrackHas(ret.value.tracks[i], C23_Needle)
        /\ \A i \in 1..Len(ret.value.albums) :
                C23_AlbumHas(ret.value.albums[i], C23_Needle)

\* a search has returned a track found through its album field, and neither
\* the track without an album nor the album whose own title and artist lack
\* the query although a track's album field has it
C23_Witness ==
    /\ Returned
    /\ IndexComplete
    /\ \E i \in 1..Len(ret.value.tracks) :
            LET t == ret.value.tracks[i] IN
            /\ ~Includes(LowerTitle(t), C23_Needle)
            /\ ~Includes(LowerArtist(t), C23_Needle)
    /\ \E i \in 1..Len(CatalogTracks) :
            /\ ~Has(CatalogTracks[i], "album")
            /\ ~InSeq(CatalogTracks[i], ret.value.tracks)
    /\ \E i \in 1..Len(CatalogAlbums) :
            ~InSeq(CatalogAlbums[i], ret.value.albums)

-----------------------------------------------------------------------------
(* Properties of repeated init calls, checked under SpecApp *)

\* C24: the one-time effects of init happen at most once per page, however
\* many times init is called and also when a call is made while an earlier
\* one awaits its fetches: the two data files are fetched at most once,
\* buildIndex runs at most once and the listeners are registered at most once.
C24_AtMostOnce ==
    /\ effects.fetches <= 1
    /\ effects.builds <= 1
    /\ effects.listeners <= 1

-----------------------------------------------------------------------------
(* Properties of the input handlers, checked under SpecDebounce *)

\* the text of an input is shorter than the handlers require for a search
C25_Short(value) == Len(Trim(value)) < MIN_QUERY_LENGTH

\* C25: while the text of a search input is below 2 characters, what its
\* handler cleared stays cleared: the dropdown is empty and inactive while
\* the global search box is, and the search page shows its empty state and
\* no results while the search-page input is; no debounced search scheduled
\* for an earlier, longer text renders into them.
C25_ClearedStays ==
    /\ C25_Short(inputValue.global) => dropdown = [active |-> FALSE, html |-> ""]
    /\ C25_Short(inputValue.page) =>
            page = [emptyState |-> TRUE, noResults |-> FALSE, tracks |-> FALSE,
                    albums |-> FALSE, artists |-> FALSE]

-----------------------------------------------------------------------------
(* Properties of the value of init, checked under SpecApp *)

\* the init calls that have resolved
C26_Resolved == {i \in 1..Len(initCalls) : initCalls[i].status = "resolved"}

\* C26: the value init resolves to is the same on every call and tells
\* whether a catalog is loaded: all calls that resolve resolve to the same
\* value, so once a call has resolved to false no later call resolves to
\* true, and a call resolves to true only when the application holds a
\* catalog at that moment.
C26_SameAnswer ==
    /\ \A i, j \in C26_Resolved : initCalls[i].value = initCalls[j].value
    /\ \A i \in C26_Resolved : initCalls[i].value = TRUE => initCalls[i].hadCatalog

-----------------------------------------------------------------------------
(* Properties of repeated searches, checked under SpecRepeat *)

\* an index entry without the score a search has written on it
C27_Unscored(e) == [f \in (DOMAIN e) \ {"score"} |-> e[f]]

\* the entries of the index, in order, scores left out
C27_Entries(index) ==
    [tracks |-> [i \in 1..Len(index.tracks) |-> C27_Unscored(index.tracks[i])],
     albums |-> [i \in 1..Len(index.albums) |-> C27_Unscored(index.albums[i])],
     artists |-> index.artists]

\* C27: search is read-only for later searches.  A search step adds no entry
\* to the index, removes none and leaves the entries in their order (it
\* writes scores on them and nothing else); and of the searches made since
\* the last buildIndex, any two with the same query and the same limit in
\* effect have returned the same tracks, albums and artists in the same
\* order, whatever was searched in between.
C27_ReadOnly ==
    /\ [](\A i, j \in 1..Len(searches) :
            (/\ searches[i].query = searches[j].query
             /\ C6_LimitInEffect(searches[i].options)
                    = C6_LimitInEffect(searches[j].options))
                => /\ searches[i].threw = searches[j].threw
                   /\ ~searches[i].threw => searches[i].value = searches[j].value)
    /\ [][(ret'.op = "search" /\ searchIndex # NULL) =>
            C27_Entries(searchIndex') = C27_Entries(searchIndex)]_vars

\* search("a") came first and third with search("b") between: "b" ranks
\* the two tracks the other way round, has left other scores on the index,
\* and the third search returns what the first did
C27_Witness ==
    /\ catalog = TiesCatalog
    /\ Len(searches) = 3
    /\ searches[1].query = <<"a">> /\ searches[1].options = NoOptions
    /\ searches[2].query = <<"b">> /\ searches[2].options = NoOptions
    /\ searches[3].query = <<"a">> /\ searches[3].options = NoOptions
    /\ searches[1].value.tracks = TiesCatalog.tracks
    /\ searches[2].value.tracks = <<TiesCatalog.tracks[2], TiesCatalog.tracks[1]>>
    /\ searches[3].value = searches[1].value
    /\ searchIndex.tracks[1].score = TITLE_PREFIX

====
